---- MODULE Spec2Model ----
(***************************************************************************)
(* Model of sandpiper's birthday notification engine                       *)
(* (sandpiper/birthdays/cog.py, class Birthdays) and of the profile        *)
(* command hook that drives it (sandpiper/bios/cog.py).                    *)
(*                                                                         *)
(* Time is counted in whole hours.  An instant is the number of hours      *)
(* since 00:00 UTC on 1 January of BaseYear.  An aware datetime is a       *)
(* record [utc, off]: the instant and the UTC offset of its tzinfo, so     *)
(* that .date() and .year are taken in the datetime's own zone and         *)
(* subtraction compares instants, as Python does.  A timezone is a fixed   *)
(* whole-hour UTC offset.                                                  *)
(***************************************************************************)
EXTENDS Integers, Sequences, FiniteSets, TLC

\* ------------------------------------------------------------------------
\* Bounds of the model
\* ------------------------------------------------------------------------
BaseYear == 2020
MaxYears == 3
MaxTasks == 4

Years == BaseYear .. (BaseYear + MaxYears - 1)
Users == {1, 2, 3, 4}
TaskIds == 1 .. MaxTasks

\* ------------------------------------------------------------------------
\* Values
\* ------------------------------------------------------------------------
PUBLIC == "PUBLIC"
PRIVATE == "PRIVATE"
PrivacyType == {PUBLIC, PRIVATE}

\* Python's None, for an absent timezone / timestamp / task; NoDate is None
\* for a date.
None == -1000
NoDate == [year |-> 0, month |-> 0, day |-> 0]

\* pytz.UTC
UTC == 0
\* dt.timedelta(hours=24), dt.timedelta(0), dt.timedelta(days=1)
Hours24 == 24
DayHours == 24

\* ------------------------------------------------------------------------
\* The proleptic Gregorian calendar of datetime.date
\* ------------------------------------------------------------------------
IsLeap(y) == (y % 4 = 0 /\ y % 100 # 0) \/ y % 400 = 0

DaysInMonth(y, m) ==
    IF m \in {4, 6, 9, 11} THEN 30
    ELSE IF m = 2 THEN (IF IsLeap(y) THEN 29 ELSE 28)
    ELSE 31

DaysInYear(y) == IF IsLeap(y) THEN 366 ELSE 365

RECURSIVE DaysBeforeMonth(_, _)
DaysBeforeMonth(y, m) ==
    IF m <= 1 THEN 0 ELSE DaysBeforeMonth(y, m - 1) + DaysInMonth(y, m - 1)

RECURSIVE DaysBeforeYear(_)
DaysBeforeYear(y) ==
    IF y <= BaseYear THEN 0 ELSE DaysBeforeYear(y - 1) + DaysInYear(y - 1)

\* dt.date(y, m, d) / dt.datetime(y, m, d) raise ValueError for a day the
\* month does not have.
ValidDate(y, m, d) == m \in 1..12 /\ d >= 1 /\ d <= DaysInMonth(y, m)

\* date.toordinal(), counted from 1 January of BaseYear = 0.
toordinal(date) ==
    DaysBeforeYear(date.year) + DaysBeforeMonth(date.year, date.month)
        + date.day - 1

\* date.fromordinal()
fromordinal(n) ==
    LET y == CHOOSE yy \in BaseYear .. (BaseYear + MaxYears) :
                 /\ DaysBeforeYear(yy) <= n
                 /\ n < DaysBeforeYear(yy) + DaysInYear(yy)
        r == n - DaysBeforeYear(y)
        m == CHOOSE mm \in 1..12 :
                 /\ DaysBeforeMonth(y, mm) <= r
                 /\ r < DaysBeforeMonth(y, mm) + DaysInMonth(y, mm)
    IN [year |-> y, month |-> m, day |-> r - DaysBeforeMonth(y, m) + 1]

\* A naive datetime at 00:00 of a date, as wall-clock hours.
datetime(y, m, d) == toordinal([year |-> y, month |-> m, day |-> d]) * DayHours

\* tz.localize(naive): the wall clock is read in zone tz.
localize(naive, tz) == [utc |-> naive - tz, off |-> tz]

\* aware.astimezone(tz): same instant, other zone.
astimezone(aware, tz) == [utc |-> aware.utc, off |-> tz]

\* aware.date(): the calendar date in the datetime's own zone.
date(aware) == fromordinal((aware.utc + aware.off) \div DayHours)

\* aware - aware: a timedelta, in hours.
minus(a, b) == a.utc - b.utc


\* ------------------------------------------------------------------------
\* State
\* ------------------------------------------------------------------------
VARIABLES
    clock,      \* the wall clock: the current instant
    localzone,  \* tzlocal.get_localzone(): the UTC offset of the host
    db,         \* the user database: one row per user
    tasks,      \* Birthdays.tasks: user_id -> task (None: no entry)
    task,       \* every asyncio task created by _create_birthday_task
    frame,      \* the coroutine frames of schedule_birthday / notify_change,
                \* one per caller: 0 is the daily loop, u is a command of user u
    rescan,     \* the frame of daily_loop / schedule_todays_birthdays
    sent,       \* the messages delivered by bday_channel.send
    edits,      \* number of profile commands the users may still run
    faults,     \* number of awaited external calls that may still fail
    listing,    \* what get_past_upcoming_birthdays last returned
    members,    \* the gateway's member cache: who is a member of which guild
    barred      \* history: the users for whom notify_change found nothing
                \* to schedule, until a later schedule_birthday call for them

vars ==
    <<clock, localzone, db, tasks, task, frame, rescan, sent, edits, faults,
      listing, members, barred>>

Callers == {0} \cup Users

NoTime == [utc |-> None, off |-> 0]

IdleFrame ==
    [pc |-> "idle", user |-> 0, birthday |-> NoDate, now |-> NoTime,
     tz |-> None, ret |-> "none", made |-> None]

\* The name and age privacy of a user's row.
Disclosure(row) ==
    [privacy_preferred_name |-> row.privacy_preferred_name,
     privacy_age |-> row.privacy_age]

\* A task: its arguments (user, delta), its position (pc, wake, todo, name,
\* age) and, for the record, the call that made it (by, now, tz, occ), the
\* privacy of name and age when it was made (created), the instant at which
\* its sleep ended (woke), the time it stored (recorded) and whether its
\* done callback logged an error (logged).
NoTask ==
    [pc |-> "unused", user |-> 0, delta |-> 0, wake |-> 0, by |-> 0,
     now |-> NoTime, tz |-> None, occ |-> NoDate, woke |-> None,
     todo |-> <<>>, name |-> "", age |-> FALSE,
     created |-> [privacy_preferred_name |-> "", privacy_age |-> ""],
     recorded |-> None, logged |-> FALSE]

\* A task that has been created and has neither completed nor been cancelled.
Live(t) == task[t].pc \in {"sleep", "guild", "record"}

\* ------------------------------------------------------------------------
\* sandpiper.common.time
\* ------------------------------------------------------------------------
\* utc_now(): datetime.now() localized to the host's zone.
utc_now(c, lz) == [utc |-> c, off |-> lz]

\* ------------------------------------------------------------------------
\* The task registry
\* ------------------------------------------------------------------------
\* _handle_task_exception, the done callback of every task: whether it logs
\* an error for a task that ended with this outcome.
_handle_task_exception_all(outcome) == outcome # "result"

_handle_task_exception(outcome) ==
    outcome \notin {"result", "CancelledError"}

cancel_as_error(tk, t) ==
    IF tk[t].pc \in {"sleep", "guild", "record"}
    THEN [tk EXCEPT ![t].pc = "cancelled", ![t].logged = TRUE]
    ELSE tk

\* Task.cancel(): a task suspended at an await ends cancelled; a finished
\* task is left as it is.
cancel(tk, t) ==
    IF tk[t].pc \in {"sleep", "guild", "record"}
    THEN [tk EXCEPT ![t].pc = "cancelled",
                    ![t].logged = _handle_task_exception("CancelledError")]
    ELSE tk

\* _try_cancel_task: the task table and the registry after the call.
_try_cancel_task_task_kept(u) == task

_try_cancel_task_task(u) ==
    IF tasks[u] # None THEN cancel(task, tasks[u]) ELSE task

_try_cancel_task_tasks_cleared(u) == [v \in Users |-> None]

_try_cancel_task_tasks(u) ==
    IF tasks[u] # None THEN [tasks EXCEPT ![u] = None] ELSE tasks

\* The id the next created task gets.
FreeIds == {t \in TaskIds : task[t].pc = "unused"}
NewId == CHOOSE t \in FreeIds : \A o \in FreeIds : t <= o

\* asyncio.sleep(delay): a delay <= 0 only yields to the event loop.
sleep_skipped(delay) == 0

sleep_backwards(delay) == delay

sleep_shortened(delay) == IF delay > 1 THEN delay - 1 ELSE 0

sleep_doubled(delay) == IF delay > 0 THEN 2 * delay ELSE 0

sleep(delay) == IF delay > 0 THEN delay ELSE 0

\* ------------------------------------------------------------------------
\* schedule_birthday: the decision
\* ------------------------------------------------------------------------
\* birthday_this_year .. midnight_delta (the date is valid).
midnight_delta(now, birthday, timezone) ==
    LET today == date(now)
        birthday_this_year == datetime(today.year, birthday.month, birthday.day)
        midnight_local == localize(birthday_this_year, timezone)
        midnight_utc == astimezone(midnight_local, UTC)
    IN minus(midnight_utc, now)

\* The first qualifying case: localized midnight within the next 24 hours.
within_next_24h(delta) == 0 <= delta /\ delta < Hours24

\* The second case: midnight was missed but it is still the birthday.
still_birthday(now, birthday, timezone, delta) ==
    LET today == date(now)
        now_local == astimezone(now, timezone)
        local_date == date(now_local)
    IN /\ delta < 0
       /\ local_date =
            [year |-> today.year, month |-> birthday.month, day |-> birthday.day]

\* "raise" (ValueError of dt.datetime), "true" or "false".
decision(now, birthday, timezone) ==
    IF ~ValidDate(date(now).year, birthday.month, birthday.day) THEN "raise"
    ELSE LET delta == midnight_delta(now, birthday, timezone)
         IN IF within_next_24h(delta) THEN "true"
            ELSE IF still_birthday(now, birthday, timezone, delta) THEN "true"
            ELSE "false"


\* ------------------------------------------------------------------------
\* The user database and the chat platform (interfaces of the engine)
\* ------------------------------------------------------------------------
\* dt.datetime.now() as stored by set_last_birthday_notification: the naive
\* wall-clock time of the host's zone.
datetime_now(c, lz) == c + lz

\* The wall-clock time an aware datetime shows.
replace_tzinfo_None(aware) == aware.utc + aware.off

\* db.get_birthdays_range(start, end, max_last_notification_time): the users
\* whose birthday (month and day) falls on a date of [start, end] and whose
\* last notification is absent or older than max_last_notification_time,
\* both read as wall-clock times; without a max_last_notification_time
\* (NoTime) the last notification is not looked at.
get_birthdays_range(d, start, end, max_last) ==
    LET days == {fromordinal(n) : n \in toordinal(start) .. toordinal(end)}
    IN {u \in Users :
          /\ d[u].birthday # NoDate
          /\ \E x \in days : /\ x.month = d[u].birthday.month
                             /\ x.day = d[u].birthday.day
          /\ \/ max_last = NoTime
             \/ d[u].last_birthday_notification = None
             \/ d[u].last_birthday_notification
                  < replace_tzinfo_None(max_last)}

\* The guilds the bot is in, and who is a member of which when it starts.
\* User 1 is in two guilds, user 2 in one, user 3 in none; user 4 is in two
\* guilds that cannot be posted to.
Guilds == {1, 2, 3, 4}
Members == {<<1, 1>>, <<1, 2>>, <<2, 1>>, <<4, 3>>, <<4, 4>>}

\* bot.get_user(user_id): None unless the user shares a guild with the bot.
get_user(u) == \E g \in Guilds : <<u, g>> \in members

RECURSIVE SeqOf(_)
SeqOf(S) ==
    IF S = {} THEN <<>>
    ELSE LET x == CHOOSE y \in S : \A z \in S : y <= z
         IN <<x>> \o SeqOf(S \ {x})

\* user.mutual_guilds
mutual_guilds(u) == SeqOf({g \in Guilds : <<u, g>> \in members})

\* guild.get_member(user_id) is not None
get_member(g, u) == <<u, g>> \in members

\* db.get_guild_birthday_channel(guild.id): the channel id, here the guild's;
\* guild 3 has none configured.
get_guild_birthday_channel(g) == IF g = 3 THEN None ELSE g

\* bot.get_channel(id) is not None: the channel of guild 4 no longer exists.
get_channel(ch) == ch \in Guilds \ {4}

\* ------------------------------------------------------------------------
\* schedule_birthday (one call is the frame of caller c)
\* ------------------------------------------------------------------------
\* _create_birthday_task: the task table with the new task of user u.
_create_birthday_task(tk, c, timezone, delta) ==
    [tk EXCEPT ![NewId] =
        [NoTask EXCEPT
           !.pc = "sleep", !.user = frame[c].user, !.delta = delta,
           !.wake = clock + sleep(delta), !.by = c, !.now = frame[c].now,
           !.tz = timezone,
           !.created = Disclosure(db[frame[c].user]),
           !.occ = [year |-> date(frame[c].now).year,
                    month |-> frame[c].birthday.month,
                    day |-> frame[c].birthday.day]]]

\* Lines 151-161: now, today, and the cancellation of the user's task.
sb_enter(c, u, birthday, now) ==
    /\ task' = _try_cancel_task_task(u)
    /\ tasks' = _try_cancel_task_tasks(u)
    /\ frame' = [frame EXCEPT ![c] =
                    [IdleFrame EXCEPT !.pc = "sb_privacy_timezone",
                                      !.user = u, !.birthday = birthday,
                                      !.now = now]]
    /\ barred' = barred \ {u}

\* Lines 170-193, with the timezone resolved.
sb_decide(c, timezone) ==
    LET f == frame[c]
        r == decision(f.now, f.birthday, timezone)
        delta == midnight_delta(f.now, f.birthday, timezone)
    IN IF r = "true"
       THEN /\ FreeIds # {}
            /\ task' = _create_birthday_task(task, c, timezone, delta)
            /\ tasks' = [tasks EXCEPT ![f.user] = NewId]
            /\ frame' = [frame EXCEPT ![c].pc = "returned", ![c].tz = timezone,
                                      ![c].ret = "true", ![c].made = NewId]
       ELSE /\ frame' = [frame EXCEPT ![c].pc = "returned", ![c].tz = timezone,
                                      ![c].ret = r]
            /\ UNCHANGED <<task, tasks>>

SB_GetPrivacyTimezone_unchecked(c) ==
    /\ frame[c].pc = "sb_privacy_timezone"
    /\ frame' = [frame EXCEPT ![c].pc = "sb_timezone"]
    /\ UNCHANGED <<clock, localzone, members, barred, faults, listing, db, tasks, task,
                   rescan, sent, edits>>

\* Line 164: await db.get_privacy_timezone(user_id); the read may fail, and
\* the exception leaves schedule_birthday.
SB_GetPrivacyTimezone(c) ==
    /\ frame[c].pc = "sb_privacy_timezone"
    /\ \/ /\ IF db[frame[c].user].privacy_timezone = PUBLIC
             THEN /\ frame' = [frame EXCEPT ![c].pc = "sb_timezone"]
                  /\ UNCHANGED <<task, tasks>>
             ELSE sb_decide(c, UTC)
          /\ UNCHANGED faults
       \/ /\ faults > 0
          /\ faults' = faults - 1
          /\ frame' = [frame EXCEPT ![c].pc = "returned", ![c].ret = "raise"]
          /\ UNCHANGED <<task, tasks>>
    /\ UNCHANGED <<clock, localzone, members, barred, listing, db, rescan, sent, edits>>

\* Lines 165-193: await db.get_timezone(user_id) and the decision.
SB_GetTimezone(c) ==
    /\ frame[c].pc = "sb_timezone"
    /\ LET timezone == db[frame[c].user].timezone
       IN sb_decide(c, IF timezone = None THEN UTC ELSE timezone)
    /\ UNCHANGED <<clock, localzone, members, barred, faults, listing, db, rescan, sent, edits>>

\* ------------------------------------------------------------------------
\* notify_change (the frame of caller u)
\* ------------------------------------------------------------------------
\* Line 307: await db.get_birthday(user_id).
NC_GetBirthday(u) ==
    /\ frame[u].pc = "nc_birthday"
    /\ frame' = [frame EXCEPT ![u].pc = "nc_privacy", ![u].user = u,
                              ![u].birthday = db[u].birthday]
    /\ UNCHANGED <<clock, localzone, members, barred, faults, listing, db, tasks, task, rescan, sent, edits>>

\* Lines 308-319: await db.get_privacy_birthday(user_id), then either the
\* cancellation or the call of schedule_birthday up to its first await.
NC_GetPrivacyBirthday(u) ==
    /\ frame[u].pc = "nc_privacy"
    /\ IF frame[u].birthday = NoDate \/ db[u].privacy_birthday = PRIVATE
       THEN /\ task' = _try_cancel_task_task(u)
            /\ tasks' = _try_cancel_task_tasks(u)
            /\ frame' = [frame EXCEPT ![u].pc = "returned", ![u].ret = "cancel"]
            /\ barred' = barred \cup {u}
       ELSE sb_enter(u, u, frame[u].birthday, utc_now(clock, localzone))
    /\ UNCHANGED <<clock, localzone, members, faults, listing, db, rescan, sent, edits>>

\* notify_change returns to the command hook.
NC_Return(u) ==
    /\ frame[u].pc = "returned"
    /\ frame' = [frame EXCEPT ![u] = IdleFrame]
    /\ UNCHANGED <<clock, localzone, members, barred, faults, listing, db, tasks, task, rescan, sent, edits>>


\* ------------------------------------------------------------------------
\* Profile commands of the Bios cog and its on_command_completion hook
\* ------------------------------------------------------------------------
\* notify_birthdays_cog: the commands after which notify_change is called.
NotifyingCommands ==
    {"birthday set", "timezone set", "privacy all", "privacy birthday",
     "privacy timezone"}

\* The users who run commands.
CommandUsers == {1}

\* A command of user u completes: its database write, then the hook.
command(u, qualified_name, row) ==
    /\ u \in CommandUsers
    /\ frame[u].pc = "idle"
    /\ edits > 0
    /\ edits' = edits - 1
    /\ db' = [db EXCEPT ![u] = row]
    /\ frame' = IF qualified_name \in NotifyingCommands
                THEN [frame EXCEPT ![u].pc = "nc_birthday"]
                ELSE frame
    /\ UNCHANGED <<clock, localzone, members, barred, faults, listing, tasks, task, rescan, sent>>

birthday_set(u, new_birthday) ==
    command(u, "birthday set", [db[u] EXCEPT !.birthday = new_birthday])

birthday_delete(u) ==
    command(u, "birthday delete", [db[u] EXCEPT !.birthday = NoDate])

timezone_set(u, new_timezone) ==
    command(u, "timezone set", [db[u] EXCEPT !.timezone = new_timezone])

timezone_delete(u) ==
    command(u, "timezone delete", [db[u] EXCEPT !.timezone = None])

privacy_birthday(u, new_privacy) ==
    command(u, "privacy birthday",
            [db[u] EXCEPT !.privacy_birthday = new_privacy])

privacy_timezone(u, new_privacy) ==
    command(u, "privacy timezone",
            [db[u] EXCEPT !.privacy_timezone = new_privacy])

\* Commands on what a birthday message discloses; notify_change is not
\* called after them.
privacy_name(u, new_privacy) ==
    command(u, "privacy name",
            [db[u] EXCEPT !.privacy_preferred_name = new_privacy])

privacy_age(u, new_privacy) ==
    command(u, "privacy age", [db[u] EXCEPT !.privacy_age = new_privacy])

name_set(u) ==
    command(u, "name set", [db[u] EXCEPT !.preferred_name = TRUE])

name_delete(u) ==
    command(u, "name delete", [db[u] EXCEPT !.preferred_name = FALSE])

\* ------------------------------------------------------------------------
\* get_past_upcoming_birthdays
\* ------------------------------------------------------------------------
get_past_upcoming_birthdays_marking(past_birthdays_day_range, upcoming_birthdays_day_range) ==
    /\ LET now == utc_now(clock, localzone)
           today == toordinal(date(now))
           past_birthdays ==
               get_birthdays_range(
                   db, fromordinal(today - past_birthdays_day_range),
                   fromordinal(today), NoTime)
           upcoming_birthdays ==
               get_birthdays_range(
                   db, fromordinal(today + 1),
                   fromordinal(today + upcoming_birthdays_day_range), NoTime)
       IN /\ listing' = <<past_birthdays, upcoming_birthdays>>
          /\ db' = [u \in Users |->
                      IF u \in past_birthdays
                      THEN [db[u] EXCEPT !.last_birthday_notification =
                                            datetime_now(clock, localzone)]
                      ELSE db[u]]
    /\ UNCHANGED <<clock, localzone, members, barred, faults, tasks, task, frame, rescan,
                   sent, edits>>

\* Lines 284-295: two range queries around today, without a
\* max_last_notification_time; their results are returned.
get_past_upcoming_birthdays(past_birthdays_day_range, upcoming_birthdays_day_range) ==
    /\ LET now == utc_now(clock, localzone)
           today == toordinal(date(now))
           past_birthdays ==
               get_birthdays_range(
                   db, fromordinal(today - past_birthdays_day_range),
                   fromordinal(today), NoTime)
           upcoming_birthdays ==
               get_birthdays_range(
                   db, fromordinal(today + 1),
                   fromordinal(today + upcoming_birthdays_day_range), NoTime)
       IN listing' = <<past_birthdays, upcoming_birthdays>>
    /\ UNCHANGED <<clock, localzone, members, barred, faults, db, tasks, task, frame, rescan,
                   sent, edits>>

\* ------------------------------------------------------------------------
\* daily_loop / schedule_todays_birthdays
\* ------------------------------------------------------------------------
\* Line 128: the newest last notification a user may have to be scanned.
max_last_notification_time_added(now) ==
    [utc |-> now.utc + Hours24, off |-> now.off]

max_last_notification_time(now) ==
    [utc |-> now.utc - Hours24, off |-> now.off]

\* Lines 117-129: now is captured and the range query is made.
R_Start ==
    /\ rescan.pc = "wait"
    /\ clock = rescan.next_run
    /\ LET now == utc_now(clock, localzone)
           today == toordinal(date(now))
           found == get_birthdays_range(
                        db, fromordinal(today - 1), fromordinal(today + 1),
                        max_last_notification_time(now))
       IN rescan' = [rescan EXCEPT !.pc = "loop", !.now = now,
                                   !.birthdays_today_tomorrow =
                                       [i \in 1..Len(SeqOf(found)) |->
                                           <<SeqOf(found)[i],
                                             db[SeqOf(found)[i]].birthday>>],
                                   !.scheduled_count = 0]
    /\ UNCHANGED <<clock, localzone, members, barred, faults, listing, db, tasks, task, frame, sent, edits>>

\* Lines 130-131: the next user's schedule_birthday call, to its first await.
R_Call ==
    /\ rescan.pc = "loop"
    /\ frame[0].pc = "idle"
    /\ rescan.birthdays_today_tomorrow # <<>>
    /\ LET next == Head(rescan.birthdays_today_tomorrow)
       IN sb_enter(0, next[1], next[2], rescan.now)
    /\ UNCHANGED <<clock, localzone, members, faults, listing, db, rescan, sent, edits>>

\* daily_loop_error, the error handler of the loop: the exception is logged.
daily_loop_error(r) == [r EXCEPT !.logged = TRUE]

\* Lines 131-132: the call returned. An exception leaves
\* schedule_todays_birthdays and daily_loop with the rest of the list not
\* gone through; discord.ext.tasks hands an exception that is not a
\* connection error to the error handler and raises it again, which ends
\* the loop's task.
R_Return ==
    /\ rescan.pc = "loop"
    /\ frame[0].pc = "returned"
    /\ frame' = [frame EXCEPT ![0] = IdleFrame]
    /\ rescan' =
         IF frame[0].ret = "raise"
         THEN [daily_loop_error(rescan) EXCEPT !.pc = "failed"]
         ELSE [rescan EXCEPT
                 !.birthdays_today_tomorrow = Tail(@),
                 !.scheduled_count =
                     IF frame[0].ret = "true" THEN @ + 1 ELSE @]
    /\ UNCHANGED <<clock, localzone, members, barred, faults, listing, db, tasks, task, sent, edits>>

\* Line 133: the pass ends; the loop sleeps until its next iteration.
R_Finish ==
    /\ rescan.pc = "loop"
    /\ frame[0].pc = "idle"
    /\ rescan.birthdays_today_tomorrow = <<>>
    /\ rescan' = [rescan EXCEPT !.pc = "wait", !.passes = @ + 1,
                                !.next_run = @ + Hours24]
    /\ UNCHANGED <<clock, localzone, members, barred, faults, listing, db, tasks, task, frame, sent, edits>>

\* ------------------------------------------------------------------------
\* send_birthday_message (task t)
\* ------------------------------------------------------------------------
\* db.get_age(user_id) is not None: the birthday is stored with its year.
get_age(row) == row.birthday # NoDate /\ row.birthday.year # 1

\* Lines 225-228: the stored preferred name if it is public and set, else
\* (lines 259-260) the member's display name in the guild.
message_name(row) ==
    IF row.privacy_preferred_name = PUBLIC /\ row.preferred_name
    THEN "preferred" ELSE "display"

\* Lines 230-232 and 262: the age is in the message, and the template is
\* drawn from the with-age pool, if the age is public and known.
message_age_known(row) == get_age(row)

message_age(row) == row.privacy_age = PUBLIC /\ get_age(row)

T_Wake_unless_private(t) ==
    /\ task[t].pc = "sleep"
    /\ clock >= task[t].wake
    /\ LET u == task[t].user
       IN task' =
            IF ~get_user(u) \/ db[u].privacy_birthday = PRIVATE
            THEN [task EXCEPT
                    ![t].woke = clock,
                    ![t].pc = "done",
                    ![t].logged = _handle_task_exception("result")]
            ELSE [task EXCEPT
                    ![t].woke = clock,
                    ![t].pc = IF mutual_guilds(u) = <<>>
                              THEN "record" ELSE "guild",
                    ![t].todo = mutual_guilds(u),
                    ![t].name = message_name(db[u]),
                    ![t].age = message_age(db[u])]
    /\ UNCHANGED <<clock, localzone, members, barred, faults, listing, db, tasks, frame, rescan, sent, edits>>

\* Lines 208-232: the sleep ends; the user, their guilds, and the name and
\* age they disclose are looked up.
T_Wake(t) ==
    /\ task[t].pc = "sleep"
    /\ clock >= task[t].wake
    /\ LET u == task[t].user
       IN task' =
            IF ~get_user(u)
            THEN [task EXCEPT
                    ![t].woke = clock,
                    ![t].pc = "done",
                    ![t].logged = _handle_task_exception("result")]
            ELSE [task EXCEPT
                    ![t].woke = clock,
                    ![t].pc = IF mutual_guilds(u) = <<>>
                              THEN "record" ELSE "guild",
                    ![t].todo = mutual_guilds(u),
                    ![t].name = message_name(db[u]),
                    ![t].age = message_age(db[u])]
    /\ UNCHANGED <<clock, localzone, members, barred, faults, listing, db, tasks, frame, rescan, sent, edits>>

T_Guild_any_member(t) ==
    /\ task[t].pc = "guild"
    /\ LET g == Head(task[t].todo)
           u == task[t].user
           deliver == get_channel(get_guild_birthday_channel(g))
       IN \/ /\ sent' = IF deliver
                        THEN sent \cup {[task |-> t, user |-> u, guild |-> g,
                                         name |-> task[t].name,
                                         age |-> task[t].age, at |-> clock]}
                        ELSE sent
             /\ task' = [task EXCEPT
                           ![t].todo = Tail(@),
                           ![t].pc = IF Tail(task[t].todo) = <<>>
                                     THEN "record" ELSE "guild"]
             /\ UNCHANGED faults
          \/ /\ deliver
             /\ faults > 0
             /\ faults' = faults - 1
             /\ task' = [task EXCEPT
                           ![t].pc = "failed",
                           ![t].logged = _handle_task_exception("HTTPException")]
             /\ UNCHANGED sent
    /\ UNCHANGED <<clock, localzone, members, barred, listing, db, tasks, frame, rescan, edits>>

\* Lines 236-266: one iteration of the loop over the guilds. The send of
\* line 266 may fail; its exception is not caught and ends the task.
T_Guild(t) ==
    /\ task[t].pc = "guild"
    /\ LET g == Head(task[t].todo)
           u == task[t].user
           deliver == /\ get_member(g, u)
                      /\ get_channel(get_guild_birthday_channel(g))
       IN \/ /\ sent' = IF deliver
                        THEN sent \cup {[task |-> t, user |-> u, guild |-> g,
                                         name |-> task[t].name,
                                         age |-> task[t].age, at |-> clock]}
                        ELSE sent
             /\ task' = [task EXCEPT
                           ![t].todo = Tail(@),
                           ![t].pc = IF Tail(task[t].todo) = <<>>
                                     THEN "record" ELSE "guild"]
             /\ UNCHANGED faults
          \/ /\ deliver
             /\ faults > 0
             /\ faults' = faults - 1
             /\ task' = [task EXCEPT
                           ![t].pc = "failed",
                           ![t].logged = _handle_task_exception("HTTPException")]
             /\ UNCHANGED sent
    /\ UNCHANGED <<clock, localzone, members, barred, listing, db, tasks, frame, rescan, edits>>

T_Record_early(t) ==
    /\ task[t].pc \in {"guild", "record"}
    /\ db' = [db EXCEPT ![task[t].user].last_birthday_notification =
                            datetime_now(clock, localzone)]
    /\ task' = IF task[t].pc = "record"
               THEN [task EXCEPT
                       ![t].pc = "done",
                       ![t].recorded = datetime_now(clock, localzone),
                       ![t].logged = _handle_task_exception("result")]
               ELSE [task EXCEPT
                       ![t].recorded = datetime_now(clock, localzone)]
    /\ UNCHANGED <<clock, localzone, members, barred, faults, listing, tasks, frame, rescan, sent, edits>>

\* Lines 268-269: the time of the notification is stored.
T_Record(t) ==
    /\ task[t].pc = "record"
    /\ db' = [db EXCEPT ![task[t].user].last_birthday_notification =
                            datetime_now(clock, localzone)]
    /\ task' = [task EXCEPT
                  ![t].pc = "done",
                  ![t].recorded = datetime_now(clock, localzone),
                  ![t].logged = _handle_task_exception("result")]
    /\ UNCHANGED <<clock, localzone, members, barred, faults, listing, tasks, frame, rescan, sent, edits>>


\* ------------------------------------------------------------------------
\* The gateway: a member leaves a guild
\* ------------------------------------------------------------------------
\* The members who may leave their guild while the bot runs.
Leavers == {<<1, 1>>}

\* The member is dropped from the cache while a task of theirs is going
\* through the guilds it has read from user.mutual_guilds and has not come
\* to this guild yet; guild.get_member then returns None for them (lines
\* 237-244).
member_leaves(u, g) ==
    /\ <<u, g>> \in Leavers
    /\ <<u, g>> \in members
    /\ \E t \in TaskIds :
          /\ task[t].user = u
          /\ task[t].pc = "guild"
          /\ \E i \in DOMAIN task[t].todo : task[t].todo[i] = g
    /\ members' = members \ {<<u, g>>}
    /\ UNCHANGED <<clock, localzone, barred, faults, listing, db, tasks, task,
                   frame, rescan, sent, edits>>

\* ------------------------------------------------------------------------
\* The passage of time
\* ------------------------------------------------------------------------
TickHours == 12

Min(S) == CHOOSE x \in S : \A y \in S : x <= y

\* The instants at which a sleeping task or the daily loop is due.
Deadlines ==
    {task[t].wake : t \in {x \in TaskIds : task[x].pc = "sleep"}}
        \cup (IF rescan.pc = "wait" THEN {rescan.next_run} ELSE {})

\* Awaited database and gateway calls take no model time: the clock moves
\* only while every coroutine is suspended in a sleep, and never past the
\* instant at which one is due.
Quiescent ==
    /\ \A c \in Callers : frame[c].pc = "idle"
    /\ rescan.pc # "loop"
    /\ \A t \in TaskIds : task[t].pc \notin {"guild", "record"}
    /\ \A x \in Deadlines : x > clock

Tick ==
    /\ Quiescent
    /\ clock < rescan.until
    /\ clock' = Min(Deadlines \cup {clock + TickHours})
    /\ UNCHANGED <<localzone, members, barred, faults, listing, db, tasks, task, frame, rescan, sent, edits>>

\* ------------------------------------------------------------------------
\* Initial states
\* ------------------------------------------------------------------------
Feb14 == [year |-> 2000, month |-> 2, day |-> 14]
Jan1 == [year |-> 2000, month |-> 1, day |-> 1]
Dec31 == [year |-> 2000, month |-> 12, day |-> 31]
Feb29 == [year |-> 2000, month |-> 2, day |-> 29]
Feb14NoYear == [year |-> 1, month |-> 2, day |-> 14]

Row(b, tz, pb, ptz) ==
    [birthday |-> b, timezone |-> tz, privacy_birthday |-> pb,
     privacy_timezone |-> ptz, privacy_preferred_name |-> PUBLIC,
     privacy_age |-> PUBLIC, preferred_name |-> FALSE,
     last_birthday_notification |-> None]

\* The daily loop, first due at instant c; the model stops the clock at
\* instant c + horizon.
InitialRescan(c, horizon) ==
    [pc |-> "wait", now |-> NoTime, birthdays_today_tomorrow |-> <<>>,
     scheduled_count |-> 0, next_run |-> c, passes |-> 0, until |-> c + horizon,
     logged |-> FALSE]

\* The cog as constructed (lines 59-68): no task, the daily loop started.
InitCog ==
    /\ tasks = [u \in Users |-> None]
    /\ task = [t \in TaskIds |-> NoTask]
    /\ frame = [c \in Callers |-> IdleFrame]
    /\ sent = {}
    /\ listing = <<{}, {}>>
    /\ barred = {}
    /\ members = Members

\* The engine at large: both users have their birthday on 14 February, the
\* bot starts shortly before or during that day, and the first user edits
\* their profile.
MainHorizon == 24
MainEdits == 1
MainStarts == {datetime(2020, 2, 13) + 23, datetime(2020, 2, 14) + 5}
MainZones == {None, 14}

Init ==
    /\ clock \in MainStarts
    /\ localzone = UTC
    /\ \E tz \in MainZones :
          db = [u \in Users |->
                  IF u = 1 THEN Row(Feb14, tz, PUBLIC, PUBLIC)
                  ELSE IF u = 2 THEN Row(Feb14, 14, PUBLIC, PUBLIC)
                  ELSE Row(NoDate, None, PUBLIC, PUBLIC)]
    /\ rescan = InitialRescan(clock, MainHorizon)
    /\ edits = MainEdits
    /\ faults = 0
    /\ InitCog

\* The engine under contention: as above, with a second command, so that a
\* command can follow a race between the daily loop and an earlier command.
RaceEdits == 2

InitRace ==
    /\ clock = datetime(2020, 2, 14) + 5
    /\ localzone = UTC
    /\ db = [u \in Users |->
                IF u = 1 THEN Row(Feb14, None, PUBLIC, PUBLIC)
                ELSE IF u = 2 THEN Row(Feb14, 14, PUBLIC, PUBLIC)
                ELSE Row(NoDate, None, PUBLIC, PUBLIC)]
    /\ rescan = InitialRescan(clock, MainHorizon)
    /\ edits = RaceEdits
    /\ faults = 0
    /\ InitCog

\* schedule_birthday by itself: one user, every timezone, every hour of the
\* two days before and after a birthday, and two commands that call
\* notify_change one after the other; the daily loop is not due.
SchedWindow == 48
SchedEdits == 2
SchedZones == (-12 .. 14) \cup {None}
SchedLocalZones == {UTC}
SchedCases ==
    {<<Feb14, 2020>>, <<Jan1, 2021>>, <<Dec31, 2020>>, <<Feb29, 2020>>,
     <<Feb29, 2021>>}

InitSched ==
    /\ \E case \in SchedCases :
          LET b == case[1]
              day == datetime(case[2], b.month, b.day)
          IN /\ clock \in (day - SchedWindow) .. (day + SchedWindow)
             /\ \E tz \in SchedZones, p \in PrivacyType :
                   db = [u \in Users |->
                           IF u = 1 THEN Row(b, tz, PUBLIC, p)
                           ELSE Row(NoDate, None, PUBLIC, PUBLIC)]
    /\ localzone \in SchedLocalZones
    /\ rescan = InitialRescan(clock + Hours24, 0)
    /\ edits = SchedEdits
    /\ faults = 0
    /\ InitCog

\* The daily loop by itself: nobody edits their profile; the bot starts at
\* any hour of the second day before a birthday and runs for four days.
DailyHorizon == 96
DailyLead == 48
DailyZones == (-12 .. 14) \cup {None}
DailyCases == {<<Feb14, 2021>>, <<Jan1, 2021>>, <<Dec31, 2020>>}

InitDaily ==
    /\ \E case \in DailyCases :
          LET b == case[1]
              day == datetime(case[2], b.month, b.day)
          IN /\ clock \in (day - DailyLead) .. (day - DailyLead + 23)
             /\ \E tz \in DailyZones :
                   db = [u \in Users |->
                           IF u = 1 THEN Row(b, tz, PUBLIC, PUBLIC)
                           ELSE Row(NoDate, None, PUBLIC, PUBLIC)]
    /\ localzone = UTC
    /\ rescan = InitialRescan(clock, DailyHorizon)
    /\ edits = 0
    /\ faults = 0
    /\ InitCog

\* The sender at large: four users with their birthday on 14 February
\* (UTC), the second without a birth year, the bot started an hour before
\* or at its midnight; the first user edits what their message may disclose
\* and may leave a guild, and a send or a database read may fail.
SendHorizon == 2
SendEdits == 1
SendFaults == 1
SendStarts == {datetime(2020, 2, 13) + 23, datetime(2020, 2, 14)}
SendRanges == {<<7, 14>>, <<0, 1>>}

InitSend ==
    /\ clock \in SendStarts
    /\ localzone = UTC
    /\ db = [u \in Users |->
                Row(IF u = 2 THEN Feb14NoYear ELSE Feb14, None, PUBLIC, PUBLIC)]
    /\ rescan = InitialRescan(clock, SendHorizon)
    /\ edits = SendEdits
    /\ faults \in 0 .. SendFaults
    /\ InitCog

\* The engine late on the birthday: the bot starts at 23:00 UTC on
\* 14 February, when the day is over for a user at UTC+14 and is not for a
\* user counted in UTC; the first user, whose timezone UTC+14 is public,
\* edits their profile.
LateHorizon == 12
LateEdits == 1

InitLate ==
    /\ clock = datetime(2020, 2, 14) + 23
    /\ localzone = UTC
    /\ db = [u \in Users |->
                IF u = 1 THEN Row(Feb14, 14, PUBLIC, PUBLIC)
                ELSE IF u = 2 THEN Row(Feb14, None, PUBLIC, PUBLIC)
                ELSE Row(NoDate, None, PUBLIC, PUBLIC)]
    /\ rescan = InitialRescan(clock, LateHorizon)
    /\ edits = LateEdits
    /\ faults = 0
    /\ InitCog

\* One pass over two users: the first is counted in UTC and has their
\* birthday today, the second lives at UTC+14 and has their birthday
\* tomorrow by the UTC calendar; the bot starts at an hour of today at which
\* tomorrow has begun for the second user. Nobody edits their profile.
PairHorizon == 2
PairFirstHour == 10
Feb15 == [year |-> 2000, month |-> 2, day |-> 15]
PairCases == {<<Feb14, Feb15, 2020>>, <<Dec31, Jan1, 2020>>}

InitPair ==
    /\ \E case \in PairCases :
          LET day == datetime(case[3], case[1].month, case[1].day)
          IN /\ clock \in (day + PairFirstHour) .. (day + 23)
             /\ db = [u \in Users |->
                        IF u = 1 THEN Row(case[1], None, PUBLIC, PUBLIC)
                        ELSE IF u = 2 THEN Row(case[2], 14, PUBLIC, PUBLIC)
                        ELSE Row(NoDate, None, PUBLIC, PUBLIC)]
    /\ localzone = UTC
    /\ rescan = InitialRescan(clock, PairHorizon)
    /\ edits = 0
    /\ faults = 0
    /\ InitCog

\* Birthdays listed for display while the engine runs: the users and the
\* starts of the sender at large; nobody edits, nobody leaves, nothing fails.
InitList ==
    /\ clock \in SendStarts
    /\ localzone = UTC
    /\ db = [u \in Users |->
                Row(IF u = 2 THEN Feb14NoYear ELSE Feb14, None, PUBLIC, PUBLIC)]
    /\ rescan = InitialRescan(clock, SendHorizon)
    /\ edits = 0
    /\ faults = 0
    /\ InitCog

\* ------------------------------------------------------------------------
\* Next-state relations
\* ------------------------------------------------------------------------
Commands ==
    \/ \E u \in Users : birthday_set(u, Feb14)
    \/ \E u \in Users : birthday_delete(u)
    \/ \E u \in Users, tz \in MainZones \ {None} : timezone_set(u, tz)
    \/ \E u \in Users : timezone_delete(u)
    \/ \E u \in Users, p \in PrivacyType : privacy_birthday(u, p)
    \/ \E u \in Users, p \in PrivacyType : privacy_timezone(u, p)

Notifications ==
    \/ \E u \in Users : NC_GetBirthday(u)
    \/ \E u \in Users : NC_GetPrivacyBirthday(u)
    \/ \E u \in Users : NC_Return(u)

Calls ==
    \/ \E c \in Callers : SB_GetPrivacyTimezone(c)
    \/ \E c \in Callers : SB_GetTimezone(c)

Passes ==
    \/ R_Start
    \/ R_Call
    \/ R_Return
    \/ R_Finish

Senders ==
    \/ \E t \in TaskIds : T_Wake(t)
    \/ \E t \in TaskIds : T_Guild(t)
    \/ \E t \in TaskIds : T_Record(t)

Next == Commands \/ Notifications \/ Calls \/ Passes \/ Senders \/ Tick

Spec == Init /\ [][Next]_vars

SpecRace == InitRace /\ [][Next]_vars

SpecLate == InitLate /\ [][Next]_vars

SchedNext ==
    \/ \E u \in Users, p \in PrivacyType : privacy_timezone(u, p)
    \/ Notifications
    \/ Calls

SpecSched == InitSched /\ [][SchedNext]_vars

Disclosures ==
    \/ \E u \in Users, p \in PrivacyType : privacy_name(u, p)
    \/ \E u \in Users, p \in PrivacyType : privacy_age(u, p)
    \/ \E u \in Users : name_set(u)
    \/ \E u \in Users : name_delete(u)

Listings ==
    \E r \in SendRanges : get_past_upcoming_birthdays(r[1], r[2])

Departures ==
    \E u \in Users, g \in Guilds : member_leaves(u, g)

SendNext == Disclosures \/ Departures \/ Passes \/ Calls \/ Senders \/ Tick

SpecSend == InitSend /\ [][SendNext]_vars

ListNext == Listings \/ Passes \/ Calls \/ Senders \/ Tick

SpecList == InitList /\ [][ListNext]_vars

DailyNext == Passes \/ Calls \/ Senders \/ Tick

SpecDaily == InitDaily /\ [][DailyNext]_vars

SpecPair == InitPair /\ [][DailyNext]_vars

\* Rescheduling with unchanged data: one user, several timezones, the bot
\* started at any hour from 30 hours before the birthday's UTC date to
\* its sixth hour; the user runs commands that write the value their
\* profile already has, each followed by notify_change, while their task is
\* pending.
AgainLead == 30
AgainHorizon == 24
AgainEdits == 1
AgainZones == {-5, None, 14}
AgainCases == {<<Feb14, 2020>>, <<Jan1, 2021>>, <<Dec31, 2020>>}

InitAgain ==
    /\ \E case \in AgainCases :
          LET b == case[1]
              day == datetime(case[2], b.month, b.day)
          IN /\ clock \in (day - AgainLead) .. (day + 6)
             /\ \E tz \in AgainZones :
                   db = [u \in Users |->
                           IF u = 1 THEN Row(b, tz, PUBLIC, PUBLIC)
                           ELSE Row(NoDate, None, PUBLIC, PUBLIC)]
    /\ localzone = UTC
    /\ rescan = InitialRescan(clock, AgainHorizon)
    /\ edits = AgainEdits
    /\ faults = 0
    /\ InitCog

Repeats ==
    \/ \E u \in Users : birthday_set(u, db[u].birthday)
    \/ \E u \in Users : privacy_birthday(u, db[u].privacy_birthday)
    \/ \E u \in Users : privacy_timezone(u, db[u].privacy_timezone)

AgainNext == Repeats \/ Notifications \/ Calls \/ Passes \/ Senders \/ Tick

SpecAgain == InitAgain /\ [][AgainNext]_vars

\* ------------------------------------------------------------------------
\* Claims
\* ------------------------------------------------------------------------
\* The instant at which user u's last notification was recorded.
LastNotified(u) ==
    IF db[u].last_birthday_notification = None THEN None
    ELSE db[u].last_birthday_notification - localzone

TasksOf(u) == {t \in TaskIds : task[t].pc # "unused" /\ task[t].user = u}
LiveTasksOf(u) == {t \in TaskIds : Live(t) /\ task[t].user = u}

\* The timezone the engine may use for a user: the stored one if it is
\* public, else UTC.
EffectiveTimezone(row) ==
    IF row.privacy_timezone = PUBLIC /\ row.timezone # None
    THEN row.timezone ELSE UTC

\* The instant of 00:00 on the birthday of year y in zone tz.
LocalMidnight(y, b, tz) == datetime(y, b.month, b.day) - tz

OccurrenceYears == BaseYear .. (BaseYear + MaxYears)

\* The user's local midnight on the birthday lies in [now, now + 24h).
FutureOrNowCase(now, b, tz) ==
    \E y \in OccurrenceYears :
        /\ ValidDate(y, b.month, b.day)
        /\ now.utc <= LocalMidnight(y, b, tz)
        /\ LocalMidnight(y, b, tz) < now.utc + Hours24

\* Local midnight is before now, and the date of now in zone tz is still
\* the birthday.
StillTodayCase(now, b, tz) ==
    LET local == fromordinal((now.utc + tz) \div DayHours)
    IN /\ local.month = b.month
       /\ local.day = b.day
       /\ LocalMidnight(local.year, b, tz) < now.utc

\* The dates a birthday can be taken to fall on: itself, and for 29 February
\* the two days a year without it could resolve it to.
Resolutions(b) ==
    IF b.month = 2 /\ b.day = 29
    THEN {b, [b EXCEPT !.day = 28], [b EXCEPT !.month = 3, !.day = 1]}
    ELSE {b}

\* A schedule_birthday call of caller c has returned (or raised).
Returned(c) ==
    frame[c].pc = "returned" /\ frame[c].ret \in {"true", "false", "raise"}

\* C1: for each user and each birthday occurrence, each shared guild with a
\* configured channel receives at most one birthday message, whatever the
\* interleaving of rescan passes, notify_change calls and task wake-ups.
C1_OneMessagePerGuildAndOccurrence ==
    \A m1 \in sent : \A m2 \in sent :
        (/\ m1.user = m2.user
         /\ m1.guild = m2.guild
         /\ task[m1.task].occ = task[m2.task].occ)
        => m1.task = m2.task

\* A user was notified, its time recorded, and a later notify_change on the
\* same birthday made a task that sent to the same guild again.
C1_Witness ==
    \E m1 \in sent : \E m2 \in sent :
        /\ m1.user = m2.user
        /\ m1.guild = m2.guild
        /\ m1.task # m2.task
        /\ task[m1.task].occ = task[m2.task].occ
        /\ task[m1.task].pc = "done"
        /\ task[m2.task].by = m2.user
        /\ task[m2.task].now.utc > m1.at

\* C2: at most one not-yet-finished notification task exists for each
\* user_id, whether or not the registry still references it.
C2_AtMostOneLiveTaskPerUser ==
    \A u \in Users : Cardinality(LiveTasksOf(u)) <= 1

\* C9: no scheduling decision installs a task for a user whose
\* last_notification_time is less than 24 hours before the now of the decision.
C9_NoTaskWithin24hOfLastNotification ==
    [][\A t \in TaskIds :
          (task[t].pc = "unused" /\ task'[t].pc = "sleep")
          => LET last == LastNotified(task'[t].user)
             IN \/ last = None
                \/ last > task'[t].now.utc
                \/ task'[t].now.utc - last >= Hours24]_vars

\* notify_change installed a task hours after the user's notification of
\* the same day was recorded.
C9_Witness ==
    \E t \in TaskIds :
        /\ task[t].pc = "sleep"
        /\ task[t].by = task[t].user
        /\ LastNotified(task[t].user) # None
        /\ LastNotified(task[t].user) < task[t].now.utc
        /\ task[t].now.utc - LastNotified(task[t].user) < Hours24

\* C3: with the rescan run at startup and then every 24 hours and the user's
\* data unchanged, a task for the birthday fires at or after the user's local
\* midnight on the birthday and less than 24 hours after it, for every
\* birthday date including 1 January and 31 December.
C3_BirthdayFiresWithinItsDay ==
    LET b == db[1].birthday
        y == CHOOSE yy \in OccurrenceYears :
                 /\ rescan.until - DailyHorizon <= datetime(yy, b.month, b.day)
                 /\ datetime(yy, b.month, b.day) <= rescan.until
        mid == LocalMidnight(y, b, EffectiveTimezone(db[1]))
    IN clock >= mid + Hours24
       => \E t \in TasksOf(1) :
             /\ task[t].woke # None
             /\ mid <= task[t].woke
             /\ task[t].woke < mid + Hours24

\* C4: whenever the user's local midnight on the birthday lies in
\* [now, now + 24h), schedule_birthday returns true and installs a task whose
\* wait is exactly that midnight minus now.
C4_FutureCaseSchedulesExactWait ==
    \A c \in Callers :
        Returned(c) =>
            LET f == frame[c]
                tz == EffectiveTimezone(db[f.user])
            IN \A y \in OccurrenceYears :
                  (/\ ValidDate(y, f.birthday.month, f.birthday.day)
                   /\ f.now.utc <= LocalMidnight(y, f.birthday, tz)
                   /\ LocalMidnight(y, f.birthday, tz) < f.now.utc + Hours24)
                  => /\ f.ret = "true"
                     /\ f.made # None
                     /\ tasks[f.user] = f.made
                     /\ task[f.made].user = f.user
                     /\ task[f.made].delta
                          = LocalMidnight(y, f.birthday, tz) - f.now.utc

\* C5: whenever local midnight on the birthday is before now but the date
\* of now in the effective timezone is still the birthday, schedule_birthday
\* returns true and installs a task with a non-positive wait.
C5_StillTodayCaseSchedulesImmediately ==
    \A c \in Callers :
        Returned(c) =>
            LET f == frame[c]
                tz == EffectiveTimezone(db[f.user])
            IN StillTodayCase(f.now, f.birthday, tz)
               => /\ f.ret = "true"
                  /\ f.made # None
                  /\ tasks[f.user] = f.made
                  /\ task[f.made].user = f.user
                  /\ task[f.made].delta <= 0

\* C6: for every input that matches neither case, schedule_birthday returns
\* false and the registry then holds no task for the user.
C6_OtherwiseReturnsFalse ==
    \A c \in Callers :
        Returned(c) =>
            LET f == frame[c]
                tz == EffectiveTimezone(db[f.user])
            IN (\A b \in Resolutions(f.birthday) :
                    /\ ~FutureOrNowCase(f.now, b, tz)
                    /\ ~StillTodayCase(f.now, b, tz))
               => /\ f.ret = "false"
                  /\ tasks[f.user] = None

\* C7: two schedule_birthday calls in succession for the same user with the
\* same birthday, timezone and now leave exactly one live task for the user,
\* with the same wait as after the first call, and the first call's task is
\* cancelled.
C7_SecondCallReplacesFirst ==
    \A c \in Callers :
        (Returned(c) /\ frame[c].ret = "true") =>
            LET f == frame[c]
            IN \A t \in TasksOf(f.user) \ {f.made} :
                  (/\ task[t].now = f.now
                   /\ task[t].tz = f.tz
                   /\ task[t].occ.month = f.birthday.month
                   /\ task[t].occ.day = f.birthday.day)
                  => /\ task[t].pc = "cancelled"
                     /\ LiveTasksOf(f.user) = {f.made}
                     /\ task[f.made].delta = task[t].delta

C7_Witness ==
    \E c \in Callers :
        /\ Returned(c)
        /\ frame[c].ret = "true"
        /\ \E t \in TasksOf(frame[c].user) \ {frame[c].made} :
              /\ task[t].now = frame[c].now
              /\ task[t].tz = frame[c].tz
              /\ task[t].occ.month = frame[c].birthday.month
              /\ task[t].occ.day = frame[c].birthday.day
              /\ task[t].delta > 0
              /\ task[t].pc = "cancelled"

\* C8: when notify_change reads an absent birthday or a PRIVATE birthday
\* privacy, then as it returns there is no live task for that user, whatever
\* tasks existed before the call.
C8_NotifyChangeLeavesNoLiveTask ==
    [][\A u \in Users :
          (/\ frame[u].pc = "nc_privacy"
           /\ frame'[u].pc = "returned"
           /\ frame'[u].ret = "cancel")
          => LiveTasksOf(u)' = {}]_vars

\* The users listed by the pass in progress.
Listed ==
    {rescan.birthdays_today_tomorrow[i][1] :
        i \in DOMAIN rescan.birthdays_today_tomorrow}

\* C10: a rescan pass that runs less than 24 hours after a user's recorded
\* last_notification_time does not list that user, and the pass calls
\* schedule_birthday for listed users only: it schedules no task for them.
C10_RescanSkipsRecentlyNotified ==
    /\ [][(rescan.pc = "wait" /\ rescan'.pc = "loop")
          => \A u \in Users :
                LET last == LastNotified(u)
                IN (last # None /\ last <= clock /\ clock - last < Hours24)
                   => u \notin Listed']_vars
    /\ [](frame[0].pc # "idle"
          => /\ rescan.pc = "loop"
             /\ rescan.birthdays_today_tomorrow # <<>>
             /\ Head(rescan.birthdays_today_tomorrow)[1] = frame[0].user)

\* The second pass runs 23 hours after a notification, on a day that is
\* still the user's birthday, and leaves the user out.
C10_Witness ==
    /\ rescan.pc = "loop"
    /\ rescan.passes > 0
    /\ \E u \in Users :
          LET last == LastNotified(u)
          IN /\ last # None
             /\ last < rescan.now.utc
             /\ rescan.now.utc - last < Hours24
             /\ db[u].birthday # NoDate
             /\ decision(rescan.now, db[u].birthday, EffectiveTimezone(db[u]))
                  = "true"
             /\ u \notin Listed

\* C11: a notification task cancelled while still in its wait step never
\* delivers a message, never stores last_notification_time, and the done
\* callback does not log its cancellation as an error.
C11_CancelledInSleepDoesNothing ==
    /\ [](\A t \in TaskIds :
            (task[t].pc = "cancelled" /\ task[t].woke = None)
            => /\ \A m \in sent : m.task # t
               /\ task[t].recorded = None
               /\ ~task[t].logged)
    /\ [][\A t \in TaskIds :
            task[t].pc = "cancelled" => task'[t] = task[t]]_vars

\* A task with a wait ahead of it was cancelled before waking, and the clock
\* has since passed the instant it would have woken at.
C11_Witness ==
    \E t \in TaskIds :
        /\ task[t].pc = "cancelled"
        /\ task[t].woke = None
        /\ task[t].delta > 0
        /\ clock > task[t].wake

\* C12: every notification task that finishes its wait without being
\* cancelled stores last_notification_time for its user before it ends,
\* however many guilds were eligible, also when the user shares no guild
\* with the bot and when no guild has a usable channel.
C12_EveryWokenTaskRecords ==
    \A t \in TaskIds :
        task[t].pc = "done"
        => /\ task[t].recorded # None
           /\ db[task[t].user].last_birthday_notification # None

\* The task of a user whose guilds have no usable channel ended with nothing
\* sent and the time stored.
C12_Witness ==
    \E t \in TaskIds :
        /\ task[t].pc = "done"
        /\ mutual_guilds(task[t].user) # <<>>
        /\ \A m \in sent : m.task # t
        /\ task[t].recorded = task[t].woke + localzone

\* C13: when privacy_timezone is not PUBLIC, the return value of
\* schedule_birthday and the wait of the task it installs are those computed
\* with UTC, whatever timezone is stored; the stored timezone is used only
\* when privacy_timezone is PUBLIC, and an absent timezone counts as UTC.
C13_PrivateTimezoneIsNotUsed ==
    \A c \in Callers :
        Returned(c) =>
            LET f == frame[c]
                row == db[f.user]
                used == IF row.privacy_timezone # PUBLIC THEN UTC
                        ELSE IF row.timezone = None THEN UTC
                        ELSE row.timezone
            IN /\ f.tz = used
               /\ f.ret = decision(f.now, f.birthday, used)
               /\ f.ret = "true"
                  => task[f.made].delta
                       = midnight_delta(f.now, f.birthday, used)

\* A call returned true for a user whose private timezone would have made
\* it return false.
C13_Witness ==
    \E c \in Callers :
        /\ Returned(c)
        /\ frame[c].ret = "true"
        /\ db[frame[c].user].privacy_timezone = PRIVATE
        /\ db[frame[c].user].timezone \notin {None, UTC}
        /\ decision(frame[c].now, frame[c].birthday,
                    db[frame[c].user].timezone) = "false"

\* C14: a birthday message carries the stored preferred name only if the
\* name privacy is PUBLIC when the task wakes, else the member's display
\* name; it carries the age, and comes from the with-age templates, only if
\* the age privacy is PUBLIC when the task wakes and an age is known, else
\* it comes from the no-age templates. The flags count as they are at the
\* wake-up, not as they were when the task was made.
C14_MessageDisclosesWhatIsPublicAtWake ==
    /\ [][\A t \in TaskIds :
            (task[t].pc = "sleep" /\ task'[t].pc = "guild")
            => LET row == db[task[t].user]
               IN /\ task'[t].name \in {"preferred", "display"}
                  /\ task'[t].name = "preferred"
                     => (row.privacy_preferred_name = PUBLIC
                         /\ row.preferred_name)
                  /\ task'[t].age
                     <=> (row.privacy_age = PUBLIC /\ get_age(row))]_vars
    /\ [](\A m \in sent :
            /\ m.name = task[m.task].name
            /\ m.age = task[m.task].age)

\* A task made while the age was public woke after the age was made
\* private, and its message has no age.
C14_Witness ==
    \E m \in sent :
        LET t == task[m.task]
        IN /\ t.delta > 0
           /\ t.created.privacy_age = PUBLIC
           /\ get_age(db[m.user])
           /\ ~m.age
           /\ m.at = t.woke

\* The guilds of user u that a message can be posted to.
UsableGuilds(u) ==
    {g \in Guilds : /\ get_member(g, u)
                    /\ get_channel(get_guild_birthday_channel(g))}

\* The messages task t has delivered.
SentBy(t) == {m \in sent : m.task = t}

\* C15: when a rescan pass finds a user with a public birthday whose local
\* midnight is d >= 0 ahead of now, and the user is a member of one guild,
\* which has a configured and resolvable birthday channel, the task sleeps
\* exactly d, then delivers exactly one message to that channel, then stores
\* the time of sending as last_notification_time.
C15_RescanToMessageEndToEnd ==
    \A t \in TaskIds :
        LET k == task[t]
            u == k.user
        IN (/\ k.pc \notin {"unused", "cancelled", "failed"}
            /\ k.by = 0
            /\ k.delta >= 0
            /\ Len(mutual_guilds(u)) = 1
            /\ Cardinality(UsableGuilds(u)) = 1)
           => /\ k.delta = LocalMidnight(k.occ.year, k.occ, k.tz) - k.now.utc
              /\ k.pc = "sleep" => (SentBy(t) = {} /\ k.recorded = None)
              /\ k.pc # "sleep" => k.woke = k.now.utc + k.delta
              /\ \A m \in SentBy(t) :
                    /\ m.guild \in UsableGuilds(u)
                    /\ m.at = k.woke
              /\ k.pc = "guild" => (SentBy(t) = {} /\ k.recorded = None)
              /\ k.pc = "record"
                 => (Cardinality(SentBy(t)) = 1 /\ k.recorded = None)
              /\ k.pc = "done"
                 => /\ Cardinality(SentBy(t)) = 1
                    /\ k.recorded = k.woke + localzone
                    /\ db[u].last_birthday_notification = k.recorded

\* The task of the user with one guild waited an hour, sent its message and
\* stored the time.
C15_Witness ==
    \E t \in TaskIds :
        /\ task[t].pc = "done"
        /\ task[t].by = 0
        /\ task[t].delta > 0
        /\ Len(mutual_guilds(task[t].user)) = 1
        /\ Cardinality(SentBy(t)) = 1
        /\ task[t].recorded = task[t].now.utc + task[t].delta + localzone

\* C16: if delivering the message fails for one guild, the sender task
\* still attempts delivery to every remaining shared guild of the user: a
\* task that has ended has tried each guild it can post to.
C16_SendFailureDoesNotStopDelivery ==
    \A t \in TaskIds :
        task[t].pc \in {"done", "failed"} /\ get_user(task[t].user)
        => \A g \in UsableGuilds(task[t].user) :
              \/ \E m \in SentBy(t) : m.guild = g
              \/ task[t].pc = "failed" /\ g = Head(task[t].todo)

\* C17: if scheduling one user raises an exception during a rescan pass,
\* the pass still calls schedule_birthday for every remaining user of the
\* range query, and the tasks already scheduled in the pass stay in place:
\* a pass ends with nobody left in its list but, at most, the user whose
\* call raised.
C17_RescanSurvivesOneFailure ==
    rescan.pc \in {"wait", "failed"}
    => /\ Len(rescan.birthdays_today_tomorrow) <= 1
       /\ \A t \in TaskIds :
             (task[t].by = 0 /\ task[t].now = rescan.now)
             => task[t].pc # "cancelled"

\* A pass ended by an exception after it had scheduled a task, which is
\* still there.
C17_Witness ==
    /\ rescan.pc = "failed"
    /\ \E t \in TaskIds :
          /\ task[t].by = 0
          /\ task[t].now = rescan.now
          /\ Live(t)
          /\ tasks[task[t].user] = t

\* C18: every completed profile command that changes the author's birthday,
\* timezone, birthday privacy or timezone privacy, by setting or by deleting
\* the value, is followed by a notify_change call for the author.
C18_EveryChangeNotifies ==
    [][\A u \in Users :
          (\/ db'[u].birthday # db[u].birthday
           \/ db'[u].timezone # db[u].timezone
           \/ db'[u].privacy_birthday # db[u].privacy_birthday
           \/ db'[u].privacy_timezone # db[u].privacy_timezone)
          => frame'[u].pc = "nc_birthday"]_vars

\* A birthday message was sent by a task that woke after the user's
\* birthday had been deleted: it found no birth date to tell the age from.
C18_Witness ==
    \E m \in sent :
        /\ db[m.user].birthday = NoDate
        /\ db[m.user].privacy_age = PUBLIC
        /\ ~m.age
        /\ task[m.task].delta > 0

\* C19: schedule_birthday called for a birthday of 29 February when the
\* year of now is not a leap year returns true or false; it does not raise.
C19_Feb29InNonLeapYearDoesNotRaise ==
    \A c \in Callers :
        (/\ Returned(c)
         /\ frame[c].birthday.month = 2
         /\ frame[c].birthday.day = 29
         /\ ~IsLeap(date(frame[c].now).year))
        => frame[c].ret \in {"true", "false"}

\* C20: get_past_upcoming_birthdays is read-only: for any pair of day
\* ranges it leaves the task registry, every task's state and every user's
\* last_notification_time as they were.
C20_GetPastUpcomingIsReadOnly ==
    [][(\E r \in SendRanges : get_past_upcoming_birthdays(r[1], r[2]))
       => /\ tasks' = tasks
          /\ task' = task
          /\ \A u \in Users :
                db'[u].last_birthday_notification
                  = db[u].last_birthday_notification]_vars

\* Birthdays were listed on the birthday, an hour after the pass that made
\* the tasks, while a task made by that pass was registered and waiting.
C20_Witness ==
    /\ listing[1] # {}
    /\ rescan.now.utc < clock
    /\ \E u \in listing[1] :
          /\ tasks[u] # None
          /\ task[tasks[u]].pc = "sleep"
          /\ task[tasks[u]].now = rescan.now

\* The user a call in caller c's frame is for.
CallUser(c) == IF c = 0 THEN frame[0].user ELSE c

\* Caller c's schedule_birthday call has cancelled the user's task and has
\* not yet decided whether to create one.
BetweenCancelAndCreate(c) ==
    frame[c].pc \in {"sb_privacy_timezone", "sb_timezone"}

\* Caller d executes a step of a notify_change or schedule_birthday call
\* for user u.
CallStep(d, u) ==
    /\ frame'[d] # frame[d]
    /\ \/ /\ frame[d].pc \in {"nc_birthday", "nc_privacy",
                              "sb_privacy_timezone", "sb_timezone"}
          /\ CallUser(d) = u
       \/ /\ frame[d].pc = "idle"
          /\ frame'[d].pc = "sb_privacy_timezone"
          /\ frame'[d].user = u

\* C21: between the cancel step and the task-creation step of one
\* schedule_birthday call for a user, no step of another schedule_birthday
\* or notify_change call for the same user is executed.
C21_CallsForOneUserAreSerialized ==
    [][\A c \in Callers : \A d \in Callers \ {c} :
          BetweenCancelAndCreate(c) => ~CallStep(d, frame[c].user)]_vars

\* While one call for a user is between its cancel and its decision, the
\* registry holds a task for that user: another call created it in between.
C21_Witness ==
    \E c \in Callers :
        /\ BetweenCancelAndCreate(c)
        /\ tasks[frame[c].user] # None
        /\ task[tasks[frame[c].user]].by # c
        /\ Live(tasks[frame[c].user])

\* C22: once notify_change for a user has observed an absent or PRIVATE
\* birthday and returned, no birthday message is delivered for that user
\* until a later scheduling call is made for them, also when a rescan pass's
\* schedule_birthday call for that user was already in progress.
C22_NoMessageAfterNotifyChangeCancelled ==
    [][\A m \in sent' \ sent : m.user \notin barred]_vars

\* A message went to a user who had made their birthday private: the task
\* was made by a call of the rescan pass that notify_change overtook.
C22_Witness ==
    \E m \in sent :
        /\ m.user \in barred
        /\ db[m.user].privacy_birthday = PRIVATE
        /\ task[m.task].by = 0
        /\ frame[m.user].pc = "idle"

\* C23: a cancel issued by schedule_birthday or notify_change can never stop
\* a notification task after it has delivered a message to some guild but
\* before it has recorded last_notification_time: every task that has ended
\* either sent nothing and wrote nothing, or attempted all guilds and wrote
\* last_notification_time.
C23_NoCancelBetweenSendAndRecord ==
    \A t \in TaskIds :
        task[t].pc \in {"cancelled", "done"}
        => \/ /\ SentBy(t) = {}
              /\ task[t].recorded = None
           \/ /\ task[t].recorded # None
              /\ task[t].todo = <<>>
              /\ \A g \in UsableGuilds(task[t].user) :
                    \E m \in SentBy(t) : m.guild = g

\* A task was cancelled after its first message and before its second: the
\* user has been greeted in one guild and no notification time is stored.
C23_Witness ==
    \E t \in TaskIds :
        /\ task[t].pc = "cancelled"
        /\ task[t].woke # None
        /\ SentBy(t) # {}
        /\ task[t].todo # <<>>
        /\ task[t].recorded = None
        /\ db[task[t].user].last_birthday_notification = None

\* C24: after schedule_birthday(user, ...) returns, whether with true or
\* false, the task that was registered for the user before the call has been
\* cancelled and is no longer in the registry; the only task the registry
\* can hold for the user is the one created by this call.
C24_RegistryHoldsOnlyThisCallsTask ==
    [][\A c \in Callers :
          /\ (/\ frame[c].pc \in {"idle", "nc_privacy"}
              /\ frame'[c].pc = "sb_privacy_timezone")
             => LET u == frame'[c].user
                IN /\ tasks'[u] = None
                   /\ tasks[u] # None
                      => task'[tasks[u]].pc \in {"cancelled", "done"}
          /\ (/\ BetweenCancelAndCreate(c)
              /\ frame'[c].pc = "returned"
              /\ frame'[c].ret \in {"true", "false"})
             => LET u == frame[c].user
                IN IF frame'[c].ret = "true"
                   THEN /\ tasks'[u] = frame'[c].made
                        /\ task'[tasks'[u]].by = c
                        /\ task'[tasks'[u]].now = frame[c].now
                   ELSE tasks'[u] = None]_vars

\* The users the range query of a rescan pass at instant now covers:
\* birthdays of yesterday, today and tomorrow, today being the date of now.
ThreeDayWindow(now) ==
    LET today == toordinal(date(now))
    IN get_birthdays_range(db, fromordinal(today - 1), fromordinal(today + 1),
                           NoTime)

\* C25: for every timezone offset between UTC-12 and UTC+14 and every now, if
\* schedule_birthday(user, birthday, now) schedules a task, then the
\* birthday's month and day lie within [today - 1, today + 1], today being
\* the calendar date of now: the three-day window of the rescan never leaves
\* out a user who qualifies for scheduling at that now.
C25_WindowCoversEveryQualifyingUser ==
    \A c \in Callers :
        (/\ Returned(c)
         /\ frame[c].ret = "true"
         /\ db[frame[c].user].birthday = frame[c].birthday)
        => frame[c].user \in ThreeDayWindow(frame[c].now)

\* A call scheduled a task for a user east of UTC whose local midnight is
\* hours ahead, on a day whose window ends before the birthday.
C25_Witness ==
    \E c \in Callers :
        /\ Returned(c)
        /\ frame[c].ret = "true"
        /\ frame[c].tz > UTC
        /\ task[frame[c].made].delta > 0
        /\ toordinal([frame[c].birthday EXCEPT !.year = date(frame[c].now).year])
             = toordinal(date(frame[c].now)) + 2

\* It is user u's birthday at instant now in the timezone the engine may
\* use for them.
BirthdayTodayLocally(now, u) ==
    LET local == fromordinal((now.utc + EffectiveTimezone(db[u])) \div DayHours)
    IN /\ db[u].birthday # NoDate
       /\ db[u].birthday.month = local.month
       /\ db[u].birthday.day = local.day

\* C26: within one rescan pass now is captured once and every
\* schedule_birthday call of the pass receives that same value, so a UTC
\* user whose birthday is today and a UTC+14 user whose birthday is tomorrow
\* in UTC but today locally are both decided against the same instant and
\* both get a task.
C26_OnePassOneNowBothScheduled ==
    /\ [][(rescan.pc = "loop" /\ rescan'.pc = "loop")
          => /\ rescan'.now = rescan.now
             /\ frame'[0].pc # "idle" => frame'[0].now = rescan.now]_vars
    /\ [][(rescan.pc = "loop" /\ rescan'.pc = "wait")
          => \A u \in Users :
                BirthdayTodayLocally(rescan.now, u)
                => \E t \in TasksOf(u) :
                      /\ task[t].by = 0
                      /\ task[t].now = rescan.now]_vars

\* The shared now by itself: every call of a pass is handed the now of the
\* pass.
OnePassOneNow ==
    [][(rescan.pc = "loop" /\ rescan'.pc = "loop")
       => /\ rescan'.now = rescan.now
          /\ frame'[0].pc # "idle" => frame'[0].now = rescan.now]_vars

\* A pass on 14 February ended with a task for each of the two users, both
\* made against the now of the pass.
C26_Witness ==
    /\ rescan.pc = "wait"
    /\ rescan.passes = 1
    /\ date(rescan.now).month = 2
    /\ \A u \in {1, 2} :
          /\ BirthdayTodayLocally(rescan.now, u)
          /\ \E t \in TasksOf(u) :
                /\ task[t].by = 0
                /\ task[t].now = rescan.now

\* C27: if a rescan pass itself raises an exception, the error is logged and
\* the daily loop still runs its next pass at the next 24-hour tick: the
\* loop does not stop because of one failed pass.
C27_LoopSurvivesFailedPass ==
    [][(/\ rescan.pc = "loop"
        /\ frame[0].pc = "returned"
        /\ frame[0].ret = "raise"
        /\ frame'[0].pc = "idle")
       => /\ rescan'.logged
          /\ rescan'.pc = "wait"
          /\ rescan'.next_run = rescan.next_run + Hours24]_vars

\* A pass raised, the error was logged, and time has gone on with the loop
\* stopped.
C27_Witness ==
    /\ rescan.pc = "failed"
    /\ rescan.logged
    /\ clock > rescan.now.utc

\* C28: after a notification task completes naturally (it woke, attempted
\* its sends and recorded last_notification_time), the registry no longer
\* holds a task for that user: every task held by the registry is pending.
C28_RegistryHoldsOnlyPendingTasks ==
    \A u \in Users : tasks[u] # None => Live(tasks[u])

\* Hours after a task sent its messages and stored the time, the registry
\* still holds it.
C28_Witness ==
    \E u \in Users :
        /\ tasks[u] # None
        /\ task[tasks[u]].pc = "done"
        /\ SentBy(tasks[u]) # {}
        /\ task[tasks[u]].recorded # None
        /\ clock > task[tasks[u]].woke

\* The duration task t hands to asyncio.sleep (line 208): its delta, as it
\* was computed by schedule_birthday.
SleepArgument(t) == task[t].delta

\* C29, as stated: the sender task never passes a negative duration to the
\* sleep primitive.
C29_SleepArgumentIsNeverNegative ==
    \A t \in TaskIds : task[t].pc # "unused" => SleepArgument(t) >= 0

\* C29: the sender task passes its delta to the sleep primitive as it is,
\* also when it is negative; the primitive does not wait for a duration that
\* is not positive, so every task waits for max(delta, 0): a task created
\* with a negative delta proceeds to sending without waiting.
C29_TaskWaitsForMaxDeltaZero ==
    \A t \in TaskIds :
        task[t].pc # "unused"
        => LET wait == IF task[t].delta > 0 THEN task[t].delta ELSE 0
           IN /\ task[t].wake = task[t].now.utc + wait
              /\ task[t].woke # None => task[t].woke = task[t].now.utc + wait
              /\ \A m \in SentBy(t) : m.at = task[t].now.utc + wait

\* A task created with a negative delta has sent its message at the instant
\* of the call that made it.
C29_Witness ==
    \E t \in TaskIds :
        /\ SleepArgument(t) < 0
        /\ task[t].woke = task[t].now.utc
        /\ \E m \in SentBy(t) : m.at = task[t].now.utc

\* The three conditions of the loop over the guilds, for user u in guild g:
\* the user is a resolvable member, the guild has a birthday channel
\* configured, and that channel resolves.
CanPost(u, g) ==
    /\ get_member(g, u)
    /\ get_guild_birthday_channel(g) # None
    /\ get_channel(get_guild_birthday_channel(g))

\* C30: for each guild shared by the user and the bot, the sender delivers
\* exactly one message to that guild's channel if and only if the user is a
\* resolvable member of the guild, the guild has a configured birthday
\* channel and that channel resolves; a guild failing any of these
\* conditions receives no message and does not prevent the remaining guilds
\* from being processed.
C30_OneMessagePerEligibleGuild ==
    /\ [][\A t \in TaskIds :
            (/\ task[t].pc = "guild"
             /\ task'[t].pc \in {"guild", "record"}
             /\ task'[t] # task[t])
            => LET u == task[t].user
                   g == Head(task[t].todo)
               IN /\ task'[t].todo = Tail(task[t].todo)
                  /\ task'[t].pc = "record" <=> task'[t].todo = <<>>
                  /\ IF CanPost(u, g)
                     THEN /\ Cardinality(sent' \ sent) = 1
                          /\ \A m \in sent' \ sent :
                                /\ m.task = t
                                /\ m.user = u
                                /\ m.guild = g
                     ELSE sent' = sent]_vars
    /\ [](\A t \in TaskIds : \A g \in Guilds :
            Cardinality({m \in SentBy(t) : m.guild = g}) <= 1)
    /\ [](\A t \in TaskIds :
            task[t].pc \in {"record", "done"} /\ task[t].woke # None
            => task[t].todo = <<>>)

\* A task found the user gone from the first guild of its list, posted
\* nothing there, and went on to deliver its message to the second.
C30_Witness ==
    \E t \in TaskIds :
        /\ task[t].pc = "done"
        /\ task[t].recorded # None
        /\ <<task[t].user, 1>> \in Members \ members
        /\ {m.guild : m \in SentBy(t)} = {2}

\* C31: a schedule or cancel operation for one user never changes the
\* registry entry or the task state of any other user, under any
\* interleaving of operations on different users: a step of a
\* schedule_birthday or notify_change call leaves the entries and the tasks
\* of every other user as they were, and a task it creates is its user's.
C31_OperationsTouchOnlyTheirUser ==
    [][\A c \in Callers :
          (frame'[c] # frame[c] /\ frame'[c].pc # "idle")
          => LET u == IF c = 0 THEN frame'[0].user ELSE c
             IN /\ \A v \in Users \ {u} : tasks'[v] = tasks[v]
                /\ \A t \in TaskIds :
                      IF task[t].pc = "unused"
                      THEN task'[t].pc # "unused" => task'[t].user = u
                      ELSE task[t].user # u => task'[t] = task[t]]_vars

\* After the pass had made a task for each of the two users, a later
\* notify_change -> schedule_birthday for the first user cancelled the
\* first user's task; the second user's entry and task are as the pass left
\* them.
C31_Witness ==
    /\ frame[1].pc \in {"sb_privacy_timezone", "sb_timezone", "returned"}
    /\ frame[1].now.utc > rescan.now.utc
    /\ \E t \in TasksOf(1) :
          /\ task[t].pc = "cancelled"
          /\ task[t].by = 0
          /\ task[t].now = rescan.now
    /\ tasks[2] # None
    /\ task[tasks[2]].by = 0
    /\ task[tasks[2]].now = rescan.now
    /\ task[tasks[2]].pc # "cancelled"

\* C32: cancelling for a user that has no registered task is a no-op that
\* leaves the registry unchanged, and cancelling a registered task removes
\* it from the registry without an error for the caller or in the
\* task-completion handler: on every step that runs _try_cancel_task, either
\* nothing is registered and the registry and the tasks stay as they are, or
\* the entry is removed, the caller goes on or returns normally, a pending
\* task ends cancelled, a finished task stays as it is, and the handler logs
\* nothing.
C32_CancelIsQuietAndRemoves ==
    [][\A c \in Callers :
          (/\ frame[c].pc \in {"idle", "nc_privacy"}
           /\ frame'[c].pc \in {"sb_privacy_timezone", "returned"})
          => LET u == IF c = 0 THEN frame'[0].user ELSE c
             IN /\ frame'[c].ret # "raise"
                /\ IF tasks[u] = None
                   THEN tasks' = tasks /\ task' = task
                   ELSE /\ tasks'[u] = None
                        /\ task'[tasks[u]].logged = task[tasks[u]].logged
                        /\ task'[tasks[u]].pc =
                             IF task[tasks[u]].pc \in {"sleep", "guild", "record"}
                             THEN "cancelled" ELSE task[tasks[u]].pc]_vars

\* A call has just cancelled the pending task its user had registered: the
\* entry is gone, the call is going on, and nothing was logged.
C32_Witness ==
    \E c \in Callers :
        /\ frame[c].pc = "sb_privacy_timezone"
        /\ tasks[frame[c].user] = None
        /\ \E t \in TasksOf(frame[c].user) :
              /\ task[t].pc = "cancelled"
              /\ task[t].by # c
              /\ ~task[t].logged
        /\ \A d \in Callers \ {c} : frame[d].pc = "idle"

\* C33: once a notification task has finished its wait it sends whatever
\* the value of privacy_birthday is at that time; the sender never reads
\* birthday privacy. After its sleep the task goes on to the guilds exactly
\* when the user is in the cache, and in each guild it posts exactly when
\* the member, the configured channel and the channel object are there,
\* with the birthday private or public.
C33_SenderIgnoresBirthdayPrivacy ==
    [][\A t \in TaskIds : \A p \in PrivacyType :
          (/\ task[t].pc \in {"sleep", "guild"}
           /\ db[task[t].user].privacy_birthday = p
           /\ task'[t] # task[t]
           /\ task'[t].pc \notin {"cancelled", "failed"})
          => LET u == task[t].user
             IN /\ task[t].pc = "sleep"
                   => (task'[t].pc \in {"guild", "record"}) = get_user(u)
                /\ task[t].pc = "guild"
                   => LET g == Head(task[t].todo)
                      IN (\E m \in sent' \ sent : m.task = t /\ m.guild = g)
                            = CanPost(u, g)]_vars

\* The user's birthday is private, their notify_change has cancelled and
\* returned, and a task registered after that has woken and delivered a
\* message.
C33_Witness ==
    \E u \in Users :
        /\ db[u].privacy_birthday = PRIVATE
        /\ frame[u].pc = "returned"
        /\ frame[u].ret = "cancel"
        /\ tasks[u] # None
        /\ task[tasks[u]].pc \in {"guild", "record"}
        /\ SentBy(tasks[u]) # {}

\* C34: no birthday message is delivered before the instant of local
\* midnight of the birthday in the effective timezone computed when the task
\* was scheduled: every message of a task is sent at or after the
\* schedule-time now plus max(delta, 0), and at or after 00:00 of the
\* occurrence in the timezone the scheduling call resolved.
C34_NoMessageBeforeLocalMidnight ==
    \A m \in sent :
        LET t == m.task
            wait == IF task[t].delta > 0 THEN task[t].delta ELSE 0
        IN /\ m.at >= task[t].now.utc + wait
           /\ m.at >= LocalMidnight(task[t].occ.year, task[t].occ, task[t].tz)
           /\ task[t].now.utc + task[t].delta
                = LocalMidnight(task[t].occ.year, task[t].occ, task[t].tz)

\* A task scheduled before the user's local midnight, in a timezone other
\* than UTC, has delivered its message at that midnight.
C34_Witness ==
    \E m \in sent :
        /\ task[m.task].delta > 0
        /\ task[m.task].tz # UTC
        /\ m.at = LocalMidnight(task[m.task].occ.year, task[m.task].occ,
                                task[m.task].tz)
        /\ m.at > task[m.task].now.utc

\* The instant at which task t is due: the schedule-time now plus its delta.
FiringInstant(t) == task[t].now.utc + task[t].delta

\* C35: for a fixed birthday and effective timezone, and two values of now
\* in the same calendar year that both fall in the future-or-now case,
\* now + delta is the same instant; cancelling a pending task and
\* scheduling it again with unchanged data does not change the instant at
\* which it fires: any two tasks made for the same user from the same
\* birthday and timezone, with nows of the same year and deltas in
\* [0, 24h), are due at the same instant and end their sleep at the same
\* instant.
C35_RescheduleKeepsFiringInstant ==
    \A t1 \in TaskIds : \A t2 \in TaskIds :
        (/\ task[t1].pc # "unused"
         /\ task[t2].pc # "unused"
         /\ task[t1].user = task[t2].user
         /\ task[t1].occ = task[t2].occ
         /\ task[t1].tz = task[t2].tz
         /\ within_next_24h(task[t1].delta)
         /\ within_next_24h(task[t2].delta))
        => /\ FiringInstant(t1) = FiringInstant(t2)
           /\ task[t1].wake = task[t2].wake

\* A pending task was cancelled by a notify_change that came hours after
\* it was scheduled, and the task made in its place, from a later now, has
\* delivered its message.
C35_Witness ==
    \E t1 \in TaskIds : \E t2 \in TaskIds :
        /\ task[t1].pc = "cancelled"
        /\ task[t1].woke = None
        /\ task[t2].user = task[t1].user
        /\ task[t2].by = task[t2].user
        /\ task[t2].now.utc > task[t1].now.utc
        /\ task[t1].delta > 0
        /\ task[t2].delta > 0
        /\ task[t2].tz # UTC
        /\ SentBy(t2) # {}

\* C36: in every run of a notification task last_notification_time is
\* written at most once and only after the task has finished attempting
\* every shared guild, and no message of the task is delivered after the
\* write: the step that writes it is taken by a task that has no guild left
\* and has not written before, it ends the task, a task that has written
\* never writes or posts again, and nothing else writes the column.
C36_RecordOnceAfterEveryGuild ==
    [][/\ \A t \in TaskIds :
             /\ task'[t].recorded # task[t].recorded
                => /\ task[t].recorded = None
                   /\ task[t].pc = "record"
                   /\ task[t].todo = <<>>
                   /\ task'[t].pc = "done"
                   /\ db'[task[t].user].last_birthday_notification
                        = task'[t].recorded
                   /\ sent' = sent
             /\ task[t].recorded # None
                => /\ task'[t] = task[t]
                   /\ {m \in sent' : m.task = t} = SentBy(t)
             /\ {m \in sent' : m.task = t} # SentBy(t)
                => task[t].recorded = None /\ task'[t].recorded = None
       /\ \A u \in Users :
             db'[u].last_birthday_notification
                  # db[u].last_birthday_notification
             => \E t \in TaskIds :
                   /\ task[t].user = u
                   /\ task[t].pc = "record"
                   /\ task'[t].pc = "done"]_vars

\* A task has gone through its two guilds, found the member gone from the
\* first and delivered to the second, and has then written the user's last
\* notification time.
C36_Witness ==
    \E t \in TaskIds :
        /\ task[t].pc = "done"
        /\ task[t].recorded # None
        /\ db[task[t].user].last_birthday_notification = task[t].recorded
        /\ <<task[t].user, 1>> \notin members
        /\ {m.guild : m \in SentBy(t)} = {2}

====
